---- MODULE Spec2Model ----
(***************************************************************************)
(* Model of the alert routes (app/blueprints/alerts/alerts_routes.py) and  *)
(* of the case task data-access functions                                  *)
(* (app/datamgmt/case/case_tasks_db.py) of iris-web.                        *)
(*                                                                         *)
(* The Entity Store is the state: tables are functions or sets of rows.    *)
(* Columns that no modelled operation reads (titles, tags, dates of tasks  *)
(* and alerts, owners) are left out.                                       *)
(***************************************************************************)
EXTENDS Integers, Sequences, FiniteSets, TLC

(***************************************************************************)
(* Bounds of the model.                                                    *)
(***************************************************************************)
\* users 1..NumUsers exist in the User table
NumUsers == 2
\* at most MaxTasks tasks are ever created
MaxTasks == 2
\* longest desired-assignee list handed to the reconciler
MaxLen == 2

\* alert ids 1..MaxAlerts may exist
MaxAlerts == 2
\* at most MaxCases cases ever exist
MaxCases == 2
\* most ids in the id list of a batch request
MaxIds == 3
\* most notes a case description takes before requests carrying one stop
MaxNotes == 1
\* most comments ever added
MaxComments == 2
\* the clock runs from 0 to MaxClock
MaxClock == 2

NumWorkers == 2

MaxStateUpdates == 3

\* A value standing for Python's None where an id is expected (ids start at 1).
NoId == 0

(***************************************************************************)
(* Python values handed to int(): integers and strings.  A string is a     *)
(* sequence of one-character strings.                                      *)
(***************************************************************************)
Digits == <<"0", "1", "2", "3", "4", "5", "6", "7", "8", "9">>

IsDigit(c) == \E i \in 1..10 : Digits[i] = c

DigitVal(c) == (CHOOSE i \in 1..10 : Digits[i] = c) - 1

DigitOf(n) == Digits[n + 1]

IntItem(n) == [kind |-> "int", int |-> n, str |-> <<>>]

StrItem(s) == [kind |-> "str", int |-> 0, str |-> s]

\* str.strip(): leading and trailing blanks removed
RECURSIVE LStrip(_)
LStrip(s) == IF s # <<>> /\ Head(s) = " " THEN LStrip(Tail(s)) ELSE s

RECURSIVE RStrip(_)
RStrip(s) ==
    IF s # <<>> /\ s[Len(s)] = " " THEN RStrip(SubSeq(s, 1, Len(s) - 1)) ELSE s

Strip(s) == RStrip(LStrip(s))

\* the value of a non-empty run of decimal digits
RECURSIVE DecimalValue(_)
DecimalValue(s) ==
    IF s = <<>> THEN 0
    ELSE 10 * DecimalValue(SubSeq(s, 1, Len(s) - 1)) + DigitVal(s[Len(s)])

\* int(x) of an int or of a str: blanks around the digits are accepted, anything
\* else raises ValueError (ok = FALSE)
PyInt(x) ==
    IF x.kind = "int" THEN [ok |-> TRUE, val |-> x.int]
    ELSE LET t == Strip(x.str)
         IN  IF t # <<>> /\ \A i \in 1..Len(t) : IsDigit(t[i])
             THEN [ok |-> TRUE, val |-> DecimalValue(t)]
             ELSE [ok |-> FALSE, val |-> 0]

(***************************************************************************)
(* The User table and the identifiers callers may name.                    *)
(***************************************************************************)
Users == 1..NumUsers

\* one id past the last user: names a user that does not exist
MaxUser == NumUsers + 1

UserIds == 1..MaxUser

TaskIds == 1..MaxTasks

\* the cases tasks are filed under, and the task status rows
TaskCaseIds == {1, 2}

TaskStatusIds == {1, 2}

\* identifiers as callers send them: ints, digit strings, padded digit
\* strings, and a string that is no integer
AssigneeItems ==
    {IntItem(n) : n \in UserIds}
        \cup {StrItem(<<DigitOf(1)>>), StrItem(<<" ", "0", DigitOf(MaxUser)>>),
              StrItem(<<"x">>)}

AssigneeLists == UNION {[1..n -> AssigneeItems] : n \in 0..MaxLen}

VARIABLES
    case_tasks,     \* CaseTasks rows: task id -> [task_case_id, task_status_id]
    task_assignee,  \* TaskAssignee rows: <<task_id, user_id>> -> number of rows
    tasks_state,    \* case id -> number of task-state updates recorded
    tret,           \* the last data-access call and what it returned
    alert_status,   \* AlertStatus rows (the Status Registry of alerts)
    alerts,         \* Alert rows: alert id -> [alert_status_id]
    similar_cache,  \* alert ids with a similarity cache entry
    cases,          \* Cases rows: case id -> [description]
    case_access,    \* case ids that were given their access-control grant
    deleted,        \* alert ids deleted by the delete route and not created since
    req,            \* the HTTP request being served
    resp,           \* the response to it, with what the route did on the way
    comments,       \* Comments rows, in the order they were added
    clock,          \* the clock that datetime.now() reads
    workers,        \* escalate requests served side by side: where each is
    callers         \* update_task_assignees calls running side by side

task_vars == <<case_tasks, task_assignee, tasks_state, tret>>

alert_db == <<alert_status, alerts, similar_cache, cases, case_access>>

comment_vars == <<comments, clock>>

race_vars == <<workers, callers>>

alert_vars == <<alert_status, alerts, similar_cache, cases, case_access,
                deleted, req, resp, comments, clock>>

vars == <<case_tasks, task_assignee, tasks_state, tret, alert_status, alerts,
          similar_cache, cases, case_access, deleted, req, resp, comments,
          clock, workers, callers>>

(***************************************************************************)
(* alerts_routes.py: requests, responses and the tables the routes use.    *)
(***************************************************************************)
AlertIds == 1..MaxAlerts

CaseIds == 1..MaxCases

\* the AlertStatus rows of a seeded database
AllAlertStatus ==
    {[status_id |-> 1, status_name |-> "New"],
     [status_id |-> 2, status_name |-> "Escalated"],
     [status_id |-> 3, status_name |-> "Merged"]}

StatusIds == {row.status_id : row \in AllAlertStatus}

\* AlertStatus.query.filter_by(status_name=name).first(): the row's id, or
\* NoId when first() returns None
status_id_by_name(name) ==
    IF \E row \in alert_status : row.status_name = name
    THEN (CHOOSE row \in alert_status : row.status_name = name).status_id
    ELSE NoId

\* data.get('note'): None, the empty string, or a text
NoNote == "<None>"

Notes == {NoNote, "", "n1"}

\* Python truth of a note
Truthy(note) == note # NoNote /\ note # ""

\* the fixed markdown header of an escalation note
NoteHeader == "### Escalation note"

\* how many times a note stands in a description
NoteCount(description, note) ==
    Cardinality({i \in DOMAIN description : description[i] = note})

\* str.split(','): the pieces between the commas
RECURSIVE SplitComma(_)
SplitComma(s) ==
    IF \A i \in DOMAIN s : s[i] # ","
    THEN <<s>>
    ELSE LET k == CHOOSE i \in DOMAIN s :
                     s[i] = "," /\ \A j \in 1..(i - 1) : s[j] # ","
         IN  <<SubSeq(s, 1, k - 1)>> \o SplitComma(SubSeq(s, k + 1, Len(s)))

\* ','.join(pieces)
RECURSIVE JoinComma(_)
JoinComma(pieces) ==
    IF Len(pieces) = 1 THEN pieces[1]
    ELSE pieces[1] \o <<",">> \o JoinComma(Tail(pieces))

\* the pieces callers put in alert_ids: the id of an alert, or no integer
IdTokens == {<<DigitOf(a)>> : a \in AlertIds} \cup {<<"x">>}

\* alert_ids as sent: absent or empty (<<>>), one id, or ids joined by commas
AlertIdStrings ==
    {<<>>} \cup
    {JoinComma(l) : l \in UNION {[1..n -> IdTokens] : n \in 1..MaxIds}}

\* a request: the route, the id in the path, whether a JSON body came
\* ("none", "empty" for {}, "json", "invalid" for one its schema rejects),
\* the fields of the body the route reads, and current_user.id when the
\* route reads it
Request(op, alert_id, body, target, ids, note, status) ==
    [op |-> op, alert_id |-> alert_id, body |-> body, target_case_id |-> target,
     alert_ids |-> ids, note |-> note, alert_status_id |-> status,
     user |-> NoId, id_list |-> <<>>]

\* the request with a JSON list of alert ids in its body
WithIdList(r, id_list) == [r EXCEPT !.id_list = id_list]

\* the request as made by the logged-in user
ByUser(r, user_id) == [r EXCEPT !.user = user_id]

NoReq == Request("none", NoId, "none", NoId, <<>>, NoNote, NoId)

\* a body that carries no field
Bodiless(op, alert_id, body) ==
    Request(op, alert_id, body, NoId, <<>>, NoNote, NoId)

Requests ==
    {Bodiless("get", a, "none") : a \in AlertIds}
    \cup {Bodiless("add", NoId, "none")}
    \cup {Request("add", NoId, "json", NoId, <<>>, NoNote, s) : s \in StatusIds}
    \cup {Bodiless("update", a, b) : a \in AlertIds, b \in {"none", "empty"}}
    \cup {Request("update", a, "json", NoId, <<>>, NoNote, s) :
            a \in AlertIds, s \in StatusIds}
    \cup {Bodiless("delete", a, "none") : a \in AlertIds}
    \cup {Bodiless("escalate", a, b) : a \in AlertIds, b \in {"none", "empty"}}
    \cup {Request("escalate", a, "json", NoId, <<>>, "n1", NoId) : a \in AlertIds}
    \cup {Bodiless("merge", a, b) : a \in AlertIds, b \in {"none", "empty"}}
    \cup {Request("merge", a, "json", c, <<>>, n, NoId) :
            a \in AlertIds, c \in CaseIds, n \in {NoNote, "n1"}}
    \cup {Bodiless("batch_merge", NoId, b) : b \in {"none", "empty"}}
    \cup {Request("batch_merge", NoId, "json", c, ids, n, NoId) :
            c \in CaseIds, ids \in AlertIdStrings, n \in Notes}
    \cup {Bodiless("batch_escalate", NoId, b) : b \in {"none", "empty"}}
    \cup {Request("batch_escalate", NoId, "json", NoId, ids, n, NoId) :
            ids \in AlertIdStrings \ {<<>>}, n \in {NoNote, "n1"}}

\* a call a route makes into app.datamgmt.alerts.alerts_db, and whether it
\* returned (ok) or raised
Call(fn, alert_list, case_id, note, ok) ==
    [fn |-> fn, alerts |-> alert_list, case |-> case_id, note |-> note,
     ok |-> ok]

\* a response: response_success or response_error, its message, the case it
\* carries, and what the route did while serving: the alerts_db calls, and
\* the grant, hook, history and audit steps in the order they were made
Response(status, msg, case_id, calls, events) ==
    [status |-> status, msg |-> msg, case |-> case_id, calls |-> calls,
     events |-> events, named |-> NoId]

\* the response with an alert id written into its message
Naming(response, alert_id) == [response EXCEPT !.named = alert_id]

NoResp == Response("none", "", NoId, <<>>, <<>>)

response_error(msg) == Response("error", msg, NoId, <<>>, <<>>)

\* an error response of a route that had called into alerts_db
response_error_after(msg, calls) == Response("error", msg, NoId, calls, <<>>)

\* what a route leaves behind: the tables and the response
Served(new_alerts, new_cache, new_cases, new_access, response) ==
    [alerts |-> new_alerts, similar_cache |-> new_cache, cases |-> new_cases,
     case_access |-> new_access, resp |-> response]

\* a route that returns without touching a table
Refused(msg) ==
    Served(alerts, similar_cache, cases, case_access, response_error(msg))

\* get_alert_by_id(alert_id): the alert is there
alert_exists(rows, alert_id) == alert_id \in DOMAIN rows

\* get_case(case_id): the case is there
case_exists(case_id) == case_id \in DOMAIN cases

\* alert.alert_status_id = status_id, committed
with_status(rows, alert_id, status_id) ==
    [rows EXCEPT ![alert_id] = [alert_status_id |-> status_id]]

\* the description of a case made by create_case_from_alert(s)
NewCaseDescription == <<"case created from alert">>

\* the text a note adds to a description: behind the header when the
\* description has text, bare otherwise
note_text(description, note) ==
    IF description # <<>> THEN <<NoteHeader, note>> ELSE <<note>>

with_note(case_rows, case_id, note) ==
    [case_rows EXCEPT ![case_id] =
        [description |-> @.description \o note_text(@.description, note)]]

\* a slip: the hook is called before the grant is given
CaseCreatedEvents_hook_first == <<"hook", "grant", "history", "audit">>

\* the steps after a case was created, in the order of the route
CaseCreatedEvents == <<"grant", "hook", "history", "audit">>

(***************************************************************************)
(* GET /alerts/<id>, POST /alerts/add, /alerts/update/<id>,                *)
(* /alerts/delete/<id>                                                     *)
(***************************************************************************)
alerts_get_result(r) ==
    IF ~alert_exists(alerts, r.alert_id) THEN Refused("Alert not found")
    ELSE Served(alerts, similar_cache, cases, case_access,
                Response("success", "", NoId, <<>>, <<>>))

\* the value is the id of a row of AlertStatus
status_known(status_id) == status_id \in {row.status_id : row \in alert_status}

\* ext: "ok", or "raise" when loading the payload or the commit raises, as
\* they do on a status that AlertStatus does not hold
alerts_add_result(r, new_id, ext) ==
    IF r.body # "json" THEN Refused("No JSON data provided")
    ELSE IF ext = "raise" \/ ~status_known(r.alert_status_id)
    THEN Refused("Exception")
    ELSE Served([a \in DOMAIN alerts \cup {new_id} |->
                    IF a = new_id THEN [alert_status_id |-> r.alert_status_id]
                    ELSE alerts[a]],
                similar_cache \cup {new_id}, cases, case_access,
                Response("success", "", NoId, <<>>,
                         <<"history", "cache", "audit", "emit">>))

\* the first refusal of the update route, "" when it has none
update_refusal(r) ==
    IF r.body # "json" THEN "No JSON data provided"
    ELSE IF ~alert_exists(alerts, r.alert_id) THEN "Alert not found"
    ELSE ""

\* the payload names a status: the change is logged when the value differs,
\* then the payload is loaded and committed, which raises when AlertStatus
\* has no such row
alerts_update_result(r) ==
    IF update_refusal(r) # "" THEN Refused(update_refusal(r))
    ELSE LET logged ==
                 IF alerts[r.alert_id].alert_status_id # r.alert_status_id
                 THEN <<"audit">> ELSE <<>>
         IN  IF ~status_known(r.alert_status_id)
             THEN Served(alerts, similar_cache, cases, case_access,
                         Response("error", "Exception", NoId, <<>>, logged))
             ELSE Served(with_status(alerts, r.alert_id, r.alert_status_id),
                         similar_cache, cases, case_access,
                         Response("success", "", NoId, <<>>, logged))

\* delete_similar_alert_cache(alert_id=alert_id)
cache_after_delete(cache, alert_id) == cache \ {alert_id}

\* a slip: the alert is not deleted from the session that is committed
alerts_after_delete_kept(rows, alert_id) == rows

\* db.session.delete(alert), committed
alerts_after_delete(rows, alert_id) ==
    [a \in DOMAIN rows \ {alert_id} |-> rows[a]]

\* ext: "ok"; "raise_cache" when deleting the cache entry raises;
\* "raise_delete" when deleting the alert or the commit raises, the cache
\* entry being gone by then
alerts_delete_result(r, ext) ==
    IF ~alert_exists(alerts, r.alert_id) THEN Refused("Alert not found")
    ELSE IF ext = "raise_cache" THEN Refused("Exception")
    ELSE IF ext = "raise_delete"
    THEN Served(alerts, cache_after_delete(similar_cache, r.alert_id), cases,
                case_access, response_error("Exception"))
    ELSE Served(alerts_after_delete(alerts, r.alert_id),
                cache_after_delete(similar_cache, r.alert_id), cases,
                case_access, Response("success", "", NoId, <<>>, <<>>))

(***************************************************************************)
(* POST /alerts/batch/update                                               *)
(***************************************************************************)
\* alert_ids of a batch update: a JSON list of ids, of alerts that may exist
\* or of one that never does
IdLists == UNION {[1..n -> AlertIds \cup {MaxAlerts + 1}] : n \in 0..MaxIds}

BatchUpdateRequests ==
    {Bodiless("batch_update", NoId, b) : b \in {"none", "empty"}}
    \cup {WithIdList(Request("batch_update", NoId, "json", NoId, <<>>, NoNote, s),
                     l) : l \in IdLists, s \in StatusIds}

\* the first refusal of the batch update route, "" when it has none
batch_update_refusal(r) ==
    IF r.body # "json" THEN "No JSON data provided"
    ELSE IF r.id_list = <<>> THEN "No alert IDs provided"
    ELSE ""

\* a slip: an id that does not resolve is passed over, as the batch merge
\* does
batch_update_missing_skipped == ""

\* what an id that does not resolve does to a batch update: the route
\* returns 'Alert with ID {alert_id} not found'
batch_update_missing == "Alert with ID not found"

\* the loop of the batch update route over alert_ids; st holds the alerts as
\* committed so far, the audit lines written, the error that ended the loop
\* and the id it names.  stage is where an update to a status that
\* AlertStatus does not hold raises: at the "load" or at the "commit".
RECURSIVE batch_update_loop(_, _, _, _)
batch_update_loop(ids, r, stage, st) ==
    IF ids = <<>> \/ st.error # "" THEN st
    ELSE
      LET id == Head(ids)
      IN  IF ~alert_exists(st.alerts, id)
          THEN batch_update_loop(Tail(ids), r, stage,
                  [st EXCEPT !.error = batch_update_missing,
                             !.named = IF batch_update_missing = ""
                                       THEN @ ELSE id])
          ELSE
            LET logged ==
                    IF st.alerts[id].alert_status_id # r.alert_status_id
                    THEN <<"audit">> ELSE <<>>
            IN  IF ~status_known(r.alert_status_id)
                THEN [st EXCEPT !.error = "Exception",
                                !.events = IF stage = "commit"
                                           THEN @ \o logged ELSE @]
                ELSE batch_update_loop(Tail(ids), r, stage,
                        [st EXCEPT
                           !.alerts = with_status(@, id, r.alert_status_id),
                           !.events = @ \o logged])

alerts_batch_update_result(r, stage) ==
    IF batch_update_refusal(r) # "" THEN Refused(batch_update_refusal(r))
    ELSE
      LET st == batch_update_loop(r.id_list, r, stage,
                    [alerts |-> alerts, events |-> <<>>, error |-> "",
                     named |-> NoId])
      IN  IF st.error # ""
          THEN Served(st.alerts, similar_cache, cases, case_access,
                      Naming(Response("error", st.error, NoId, <<>>, st.events),
                             st.named))
          ELSE Served(st.alerts, similar_cache, cases, case_access,
                      Response("success", "Batch update successful", NoId,
                               <<>>, st.events))

(***************************************************************************)
(* POST /alerts/escalate/<id> and /alerts/merge/<id>                       *)
(***************************************************************************)
\* a slip: the id of the seeded row, not of the row the table holds
escalated_status_id_seeded ==
    (CHOOSE row \in AllAlertStatus : row.status_name = "Escalated").status_id

\* AlertStatus.query.filter_by(status_name='Escalated').first().status_id;
\* NoId stands for first() returning None, whose .status_id raises
escalated_status_id == status_id_by_name("Escalated")

merged_status_id == status_id_by_name("Merged")

\* a slip: the body is looked at before the alert, as the merge route does
escalate_refusal_body_first(r) ==
    IF r.body = "none" THEN "No JSON data provided"
    ELSE IF ~alert_exists(alerts, r.alert_id) THEN "Alert not found"
    ELSE ""

\* the first refusal of the escalate route, "" when it has none
escalate_refusal(r) ==
    IF ~alert_exists(alerts, r.alert_id) THEN "Alert not found"
    ELSE IF r.body = "none" THEN "No JSON data provided"
    ELSE ""

\* the Cases table with one more case, as create_case_from_alert(s) leaves it
with_new_case(case_rows) ==
    [c \in DOMAIN case_rows \cup {Cardinality(DOMAIN case_rows) + 1} |->
        IF c \in DOMAIN case_rows THEN case_rows[c]
        ELSE [description |-> NewCaseDescription]]

\* the number of the step after the creation that raises, 0 when none does
RaisingStep(ext) ==
    CASE ext = "raise_1" -> 1
      [] ext = "raise_2" -> 2
      [] ext = "raise_3" -> 3
      [] ext = "raise_4" -> 4
      [] OTHER -> 0

\* a slip: the status is restored when no case was made
status_on_failure_restored(marked) == alerts

\* the alerts a failed case creation leaves: the status was committed
\* before, and the except branch rolls nothing back
status_on_failure(marked) == marked

\* the route from the case creation on.  ext is what happened: "ok" (a case,
\* and every later step went through), "none" (the creation returned None),
\* "raise" (the creation raised), or "raise_k" (the k-th step after the
\* creation raised, the case being there)
case_created(marked, alert_list, note, fn, ext) ==
    LET new_case == Cardinality(DOMAIN cases) + 1
        done == IF RaisingStep(ext) = 0 THEN CaseCreatedEvents
                ELSE SubSeq(CaseCreatedEvents, 1, RaisingStep(ext) - 1)
        granted == IF \E i \in DOMAIN done : done[i] = "grant"
                   THEN {new_case} ELSE {}
        created == <<Call(fn, alert_list, new_case, note, TRUE)>>
    IN  IF ext = "raise"
        THEN Served(status_on_failure(marked), similar_cache, cases,
                    case_access,
                    response_error_after("Exception",
                        <<Call(fn, alert_list, NoId, note, FALSE)>>))
        ELSE IF ext = "none"
        THEN Served(status_on_failure(marked), similar_cache, cases,
                    case_access,
                    response_error_after("Failed to create case from alert",
                        <<Call(fn, alert_list, NoId, note, TRUE)>>))
        ELSE IF RaisingStep(ext) # 0
        THEN Served(marked, similar_cache, with_new_case(cases),
                    case_access \cup granted,
                    Response("error", "Exception", NoId, created, done))
        ELSE Served(marked, similar_cache, with_new_case(cases),
                    case_access \cup granted,
                    Response("success", "", new_case, created, done))

alerts_escalate_result(r, ext) ==
    IF escalate_refusal(r) # "" THEN Refused(escalate_refusal(r))
    ELSE IF escalated_status_id = NoId THEN Refused("Exception")
    ELSE case_created(with_status(alerts, r.alert_id, escalated_status_id),
                      <<r.alert_id>>, r.note, "create_case_from_alert", ext)

\* a slip: the target case is not looked up
merge_refusal_no_case(r) ==
    IF r.body = "none" THEN "No JSON data provided"
    ELSE IF r.target_case_id = NoId THEN "No target case id provided"
    ELSE IF ~alert_exists(alerts, r.alert_id) THEN "Alert not found"
    ELSE ""

\* the first refusal of the merge route, "" when it has none
merge_refusal(r) ==
    IF r.body = "none" THEN "No JSON data provided"
    ELSE IF r.target_case_id = NoId THEN "No target case id provided"
    ELSE IF ~alert_exists(alerts, r.alert_id) THEN "Alert not found"
    ELSE IF ~case_exists(r.target_case_id) THEN "Target case not found"
    ELSE ""

\* merge_alert_in_case(alert, case, ..., note=note, ...): what it leaves in
\* the Cases table; a note it is given goes into the case description
merge_alert_in_case(case_rows, case_id, note) ==
    IF Truthy(note) THEN with_note(case_rows, case_id, note) ELSE case_rows

\* ext: "ok", or "raise" when merge_alert_in_case raises
alerts_merge_result(r, ext) ==
    IF merge_refusal(r) # "" THEN Refused(merge_refusal(r))
    ELSE IF merged_status_id = NoId THEN Refused("Exception")
    ELSE LET marked == with_status(alerts, r.alert_id, merged_status_id)
             call == Call("merge_alert_in_case", <<r.alert_id>>,
                          r.target_case_id, r.note, ext = "ok")
         IN  IF ext = "raise"
             THEN Served(marked, similar_cache, cases, case_access,
                         response_error_after("Exception", <<call>>))
             ELSE Served(marked, similar_cache,
                         merge_alert_in_case(cases, r.target_case_id, r.note),
                         case_access,
                         Response("success", "", r.target_case_id, <<call>>,
                                  <<>>))

(***************************************************************************)
(* POST /alerts/batch/merge and /alerts/batch/escalate                     *)
(***************************************************************************)
\* the first refusal of the batch merge route, "" when it has none
batch_merge_refusal(r) ==
    IF r.body = "none" THEN "No JSON data provided"
    ELSE IF r.target_case_id = NoId THEN "No target case id provided"
    ELSE IF r.alert_ids = <<>> THEN "No alert ids provided"
    ELSE IF ~case_exists(r.target_case_id) THEN "Target case not found"
    ELSE ""

\* the note argument of the per-alert merge of a batch: note=None
batch_merge_item_note(note) == NoNote

\* a slip: an id that does not resolve ends the batch
unresolved_error_abort == "Alert not found"

\* what an id that does not resolve does to a batch: nothing (continue)
unresolved_error == ""

\* a slip: the status is committed together with the merge
alerts_when_merge_raises_unmarked(marked, before) == before

\* the Alert rows when merge_alert_in_case raises: the status was committed
\* before the call
alerts_when_merge_raises(marked, before) == marked

\* the loop of the batch merge route over the pieces of alert_ids; st holds
\* the tables as committed so far, the merge calls made and the exception
\* raised, if any.  fail_at is the number of the merge call that raises
\* (none when 0).
RECURSIVE batch_merge_loop(_, _, _, _)
batch_merge_loop(pieces, r, fail_at, st) ==
    IF pieces = <<>> \/ st.error # "" THEN st
    ELSE
      LET id == PyInt(StrItem(Head(pieces)))
      IN  IF ~id.ok THEN [st EXCEPT !.error = "ValueError"]
          ELSE IF ~alert_exists(st.alerts, id.val)
          THEN batch_merge_loop(Tail(pieces), r, fail_at,
                                [st EXCEPT !.error = unresolved_error])
          ELSE IF merged_status_id = NoId
          THEN [st EXCEPT !.error = "Exception"]
          ELSE
            LET marked == with_status(st.alerts, id.val, merged_status_id)
                item_note == batch_merge_item_note(r.note)
                raises == Len(st.calls) + 1 = fail_at
                call == Call("merge_alert_in_case", <<id.val>>,
                             r.target_case_id, item_note, ~raises)
            IN  IF raises
                THEN [alerts |-> alerts_when_merge_raises(marked, st.alerts),
                      cases |-> st.cases,
                      calls |-> Append(st.calls, call), error |-> "Exception"]
                ELSE batch_merge_loop(Tail(pieces), r, fail_at,
                        [alerts |-> marked,
                         cases |-> merge_alert_in_case(st.cases,
                                       r.target_case_id, item_note),
                         calls |-> Append(st.calls, call), error |-> ""])

\* the note of the batch, added to the case description after the loop
batch_note(case_rows, case_id, note) ==
    IF Truthy(note) THEN with_note(case_rows, case_id, note) ELSE case_rows

alerts_batch_merge_result(r, fail_at) ==
    IF batch_merge_refusal(r) # "" THEN Refused(batch_merge_refusal(r))
    ELSE
      LET st == batch_merge_loop(SplitComma(r.alert_ids), r, fail_at,
                    [alerts |-> alerts, cases |-> cases, calls |-> <<>>,
                     error |-> ""])
      IN  IF st.error # ""
          THEN Served(st.alerts, similar_cache, st.cases, case_access,
                      response_error_after(st.error, st.calls))
          ELSE Served(st.alerts, similar_cache,
                      batch_note(st.cases, r.target_case_id, r.note),
                      case_access,
                      Response("success", "", r.target_case_id, st.calls, <<>>))

\* the first refusal of the batch escalate route, "" when it has none
batch_escalate_refusal(r) ==
    IF r.body = "none" THEN "No JSON data provided"
    ELSE IF r.alert_ids = <<>> THEN "No alert ids provided"
    ELSE ""

\* a slip: the list is started again for every alert
alerts_list_append_restarted(alerts_list, alert_id) == <<alert_id>>

\* alerts_list.append(alert)
alerts_list_append(alerts_list, alert_id) == Append(alerts_list, alert_id)

\* the loop of the batch escalate route: st holds the alerts as committed so
\* far, alerts_list and the exception raised, if any
RECURSIVE batch_escalate_loop(_, _)
batch_escalate_loop(pieces, st) ==
    IF pieces = <<>> \/ st.error # "" THEN st
    ELSE
      LET id == PyInt(StrItem(Head(pieces)))
      IN  IF ~id.ok THEN [st EXCEPT !.error = "ValueError"]
          ELSE IF ~alert_exists(st.alerts, id.val)
          THEN batch_escalate_loop(Tail(pieces),
                                   [st EXCEPT !.error = unresolved_error])
          ELSE IF merged_status_id = NoId
          THEN [st EXCEPT !.error = "Exception"]
          ELSE batch_escalate_loop(Tail(pieces),
                  [alerts |-> with_status(st.alerts, id.val, merged_status_id),
                   alerts_list |-> alerts_list_append(st.alerts_list, id.val),
                   error |-> ""])

\* ext is what create_case_from_alerts did: "ok", "none" or "raise"
alerts_batch_escalate_result(r, ext) ==
    IF batch_escalate_refusal(r) # "" THEN Refused(batch_escalate_refusal(r))
    ELSE
      LET st == batch_escalate_loop(SplitComma(r.alert_ids),
                    [alerts |-> alerts, alerts_list |-> <<>>, error |-> ""])
      IN  IF st.error # ""
          THEN Served(st.alerts, similar_cache, cases, case_access,
                      response_error(st.error))
          ELSE case_created(st.alerts, st.alerts_list, r.note,
                            "create_case_from_alerts", ext)

(***************************************************************************)
(* Serving: a request comes in, its route runs to its return, the response *)
(* goes out.                                                               *)
(***************************************************************************)
Idle == req = NoReq /\ resp = NoResp

Pending(op) == req.op = op /\ resp = NoResp

\* the cases a request with a note may still write its note to
HasRoomForNote(r) ==
    (Truthy(r.note) /\ r.target_case_id \in DOMAIN cases) =>
        NoteCount(cases[r.target_case_id].description, r.note) < MaxNotes

Receive(r) ==
    /\ Idle
    /\ r.op = "add" => DOMAIN alerts # AlertIds
    /\ r.op = "comment_add" => Len(comments) < MaxComments
    /\ HasRoomForNote(r)
    /\ req' = r
    /\ UNCHANGED <<alert_db, deleted, resp>>
    /\ UNCHANGED comment_vars
    /\ UNCHANGED task_vars
    /\ UNCHANGED race_vars

\* the route's result becomes the state
Serve(res) ==
    /\ alerts' = res.alerts
    /\ similar_cache' = res.similar_cache
    /\ cases' = res.cases
    /\ case_access' = res.case_access
    /\ resp' = res.resp
    /\ deleted' = (deleted \ DOMAIN res.alerts)
                      \cup (DOMAIN alerts \ DOMAIN res.alerts)
    /\ UNCHANGED <<alert_status, req>>
    /\ UNCHANGED comment_vars
    /\ UNCHANGED task_vars
    /\ UNCHANGED race_vars

alerts_get_route == Pending("get") /\ Serve(alerts_get_result(req))

alerts_batch_update_route ==
    /\ Pending("batch_update")
    /\ \E stage \in {"load", "commit"} :
          Serve(alerts_batch_update_result(req, stage))

alerts_add_route ==
    /\ Pending("add")
    /\ \E new_id \in AlertIds \ DOMAIN alerts, ext \in {"ok", "raise"} :
          Serve(alerts_add_result(req, new_id, ext))

alerts_update_route == Pending("update") /\ Serve(alerts_update_result(req))

alerts_delete_route ==
    /\ Pending("delete")
    /\ \E ext \in {"ok", "raise_cache", "raise_delete"} :
          Serve(alerts_delete_result(req, ext))

\* what a case creation and the steps after it may do; a case is made only
\* while there is room
CreateOutcomes ==
    {"none", "raise"} \cup
        (IF Cardinality(DOMAIN cases) < MaxCases
         THEN {"ok", "raise_1", "raise_2", "raise_3", "raise_4"} ELSE {})

alerts_escalate_route ==
    /\ Pending("escalate")
    /\ \E ext \in CreateOutcomes : Serve(alerts_escalate_result(req, ext))

alerts_merge_route ==
    /\ Pending("merge")
    /\ \E ext \in {"ok", "raise"} : Serve(alerts_merge_result(req, ext))

alerts_batch_merge_route ==
    /\ Pending("batch_merge")
    /\ \E fail_at \in 0..MaxIds : Serve(alerts_batch_merge_result(req, fail_at))

alerts_batch_escalate_route ==
    /\ Pending("batch_escalate")
    /\ \E ext \in CreateOutcomes : Serve(alerts_batch_escalate_result(req, ext))

\* the response has gone out
Return ==
    /\ req # NoReq
    /\ resp # NoResp
    /\ req' = NoReq
    /\ resp' = NoResp
    /\ UNCHANGED <<alert_db, deleted>>
    /\ UNCHANGED comment_vars
    /\ UNCHANGED task_vars
    /\ UNCHANGED race_vars

(***************************************************************************)
(* POST /alerts/<id>/comments/add                                          *)
(***************************************************************************)
\* the requests of the comment route, each by a logged-in user
CommentRequests ==
    {ByUser(Bodiless("comment_add", a, b), u) :
        a \in AlertIds, b \in {"json", "invalid"}, u \in Users}

\* the comment as the route fills it in: the alert of the path, the current
\* user, and a reading of the clock for each of the two dates
new_comment(alert_id, user_id, first_now, second_now) ==
    [comment_alert_id |-> alert_id, comment_user_id |-> user_id,
     comment_date |-> first_now, comment_update_date |-> second_now]

\* the values datetime.now() may return to a reading that follows one made
\* at time t: the clock does not go back, and stays within the bound
NowFrom(t) == {n \in t..(t + 1) : n <= MaxClock}

\* the route: the alert is looked up, the payload loaded, the comment filled
\* in with two readings of the clock, between which it may have moved on,
\* and committed; then the history entry, the hook and the audit entry
case_comment_add ==
    /\ Pending("comment_add")
    /\ IF ~alert_exists(alerts, req.alert_id)
       THEN /\ resp' = response_error("Invalid alert ID")
            /\ UNCHANGED comment_vars
       ELSE IF req.body = "invalid"
       THEN /\ resp' = response_error("Data error")
            /\ UNCHANGED comment_vars
       ELSE \E second_now \in NowFrom(clock) :
              /\ comments' = Append(comments,
                     new_comment(req.alert_id, req.user, clock, second_now))
              /\ clock' = second_now
              /\ resp' = Response("success", "Alert commented", NoId, <<>>,
                                  <<"history", "hook", "audit">>)
    /\ UNCHANGED <<alert_db, deleted, req>>
    /\ UNCHANGED task_vars
    /\ UNCHANGED race_vars

\* time passes
Tick ==
    /\ clock < MaxClock
    /\ clock' = clock + 1
    /\ UNCHANGED <<alert_db, deleted, req, resp, comments>>
    /\ UNCHANGED task_vars
    /\ UNCHANGED race_vars

(***************************************************************************)
(* POST /alerts/escalate/<id>, served by several workers at once.  Each    *)
(* request runs in its own database session; between two commits of one    *)
(* request the commits of another may land.                                *)
(***************************************************************************)
Workers == 1..NumWorkers

\* where a worker is in alerts_escalate_route, the request it serves and
\* its response
Worker(pc, alert_id, body, response) ==
    [pc |-> pc, alert_id |-> alert_id, body |-> body, resp |-> response]

\* no worker serves a request
NoWorkers == [w \in Workers |-> Worker("idle", NoId, "none", NoResp)]

\* a slip: the status is left to the commit the case creation makes
status_committed_late(rows, alert_id) == rows

\* the Alert rows once the route has set the status and committed
status_committed(rows, alert_id) ==
    with_status(rows, alert_id, escalated_status_id)

\* a request reaches a worker
escalate_begin(w, alert_id, body) ==
    /\ workers[w].pc = "idle"
    /\ workers' = [workers EXCEPT ![w] = Worker("read", alert_id, body, NoResp)]
    /\ UNCHANGED <<alert_db, deleted, req, resp, callers>>
    /\ UNCHANGED comment_vars
    /\ UNCHANGED task_vars

\* the alert is read and the body looked at
escalate_read(w) ==
    /\ workers[w].pc = "read"
    /\ workers' = [workers EXCEPT ![w] =
          IF escalate_refusal(workers[w]) # ""
          THEN [@ EXCEPT !.pc = "done",
                         !.resp = response_error(escalate_refusal(workers[w]))]
          ELSE [@ EXCEPT !.pc = "status"]]
    /\ UNCHANGED <<alert_db, deleted, req, resp, callers>>
    /\ UNCHANGED comment_vars
    /\ UNCHANGED task_vars

\* the status is set to "Escalated" and committed
escalate_status(w) ==
    /\ workers[w].pc = "status"
    /\ IF escalated_status_id = NoId
       THEN /\ workers' = [workers EXCEPT ![w] =
                  [@ EXCEPT !.pc = "done", !.resp = response_error("Exception")]]
            /\ UNCHANGED alerts
       ELSE /\ workers' = [workers EXCEPT ![w] = [@ EXCEPT !.pc = "create"]]
            /\ alerts' = status_committed(alerts, workers[w].alert_id)
    /\ UNCHANGED <<alert_status, similar_cache, cases, case_access, deleted,
                   req, resp, callers>>
    /\ UNCHANGED comment_vars
    /\ UNCHANGED task_vars

\* the case is created and committed, and the steps after it are made; or
\* the creation fails
escalate_create(w) ==
    /\ workers[w].pc = "create"
    /\ \E ext \in CreateOutcomes :
          LET res == case_created(alerts, <<workers[w].alert_id>>, NoNote,
                                  "create_case_from_alert", ext)
          IN  /\ alerts' = res.alerts
              /\ cases' = res.cases
              /\ case_access' = res.case_access
              /\ workers' = [workers EXCEPT ![w] =
                    [@ EXCEPT !.pc = "done", !.resp = res.resp]]
    /\ UNCHANGED <<alert_status, similar_cache, deleted, req, resp, callers>>
    /\ UNCHANGED comment_vars
    /\ UNCHANGED task_vars

\* the response has gone out
escalate_end(w) ==
    /\ workers[w].pc = "done"
    /\ workers' = [workers EXCEPT ![w] = NoWorkers[w]]
    /\ UNCHANGED <<alert_db, deleted, req, resp, callers>>
    /\ UNCHANGED comment_vars
    /\ UNCHANGED task_vars

(***************************************************************************)
(* case_tasks_db.py                                                        *)
(***************************************************************************)
\* a slip: the case is left out of the filter
get_task_in_any_case(task_id, caseid) ==
    IF task_id \in DOMAIN case_tasks THEN task_id ELSE NoId

\* get_task(task_id, caseid): the row, or NoId for None
get_task(task_id, caseid) ==
    IF task_id \in DOMAIN case_tasks /\ case_tasks[task_id].task_case_id = caseid
    THEN task_id
    ELSE NoId

\* cur_assignee_list / set_cur_assignees: user ids with a row for the task
set_cur_assignees(rows, task_id) == {u \in UserIds : rows[<<task_id, u>>] > 0}

\* every element of the list converts
AllConvert(task_assignee_list) ==
    \A i \in DOMAIN task_assignee_list : PyInt(task_assignee_list[i]).ok

\* set_assignees = set(int(assignee) for assignee in task_assignee_list)
set_assignees(task_assignee_list) ==
    {PyInt(task_assignee_list[i]).val : i \in DOMAIN task_assignee_list}

\* a slip: the current assignees are not subtracted
assignees_to_add_all(desired, current) == desired

assignees_to_add(desired, current) == desired \ current

assignees_to_remove(desired, current) == current \ desired

\* a slip: a row is created without looking the user up
rows_added_unchecked(task_assignee_list, current) ==
    [u \in UserIds |->
        IF u \in assignees_to_add(set_assignees(task_assignee_list), current)
        THEN 1 ELSE 0]

\* a slip: the loop runs over the list as sent, not over the set
rows_added_per_element(task_assignee_list, current) ==
    [u \in UserIds |->
        IF u \notin current /\ u \in Users
        THEN Cardinality({i \in DOMAIN task_assignee_list :
                            PyInt(task_assignee_list[i]).val = u})
        ELSE 0]

\* the first loop: one new row for every uid to add whose User row exists
rows_added(task_assignee_list, current) ==
    [u \in UserIds |->
        IF u \in assignees_to_add(set_assignees(task_assignee_list), current)
           /\ u \in Users
        THEN 1 ELSE 0]

\* the second loop: every row of (task, uid) is deleted, for uid to remove
rows_after_remove(rows, task_id, to_remove) ==
    [k \in DOMAIN rows |->
        IF k[1] = task_id /\ k[2] \in to_remove THEN 0 ELSE rows[k]]

\* the sum of a row count over a set of user ids
RECURSIVE SumOver(_, _)
SumOver(f, S) ==
    IF S = {} THEN 0
    ELSE LET u == CHOOSE x \in S : TRUE IN f[u] + SumOver(f, S \ {u})

\* number of rows the second loop deletes
rows_deleted(rows, task_id, to_remove) ==
    SumOver([u \in UserIds |-> rows[<<task_id, u>>]], to_remove \cap UserIds)

\* TaskAssignee after update_task_assignees(task, task_assignee_list) commits
reconciled(rows, task_id, task_assignee_list) ==
    LET current == set_cur_assignees(rows, task_id)
        desired == set_assignees(task_assignee_list)
        added   == rows_added(task_assignee_list, current)
        kept    == rows_after_remove(rows, task_id,
                                     assignees_to_remove(desired, current))
    IN  [k \in DOMAIN rows |->
            IF k[1] = task_id THEN kept[k] + added[k[2]] ELSE kept[k]]

\* whether a call repeats the call before it: same task, same desired ids,
\* and the call before ran the reconciler to its commit
Repeats(task_id, task_assignee_list) ==
    /\ tret.ret = "task"
    /\ tret.task = task_id
    /\ tret.desired = set_assignees(task_assignee_list)

\* the record of a call that ran the reconciler: the ids it was asked for
\* (set_assignees), how many it was sent, and the rows it created and deleted
assignee_call(op, rows, task_id, task_assignee_list) ==
    LET current == set_cur_assignees(rows, task_id)
        desired == set_assignees(task_assignee_list)
        added   == rows_added(task_assignee_list, current)
    IN  [op |-> op, task |-> task_id, desired |-> desired,
         n_args |-> Len(task_assignee_list),
         ret |-> "task", again |-> Repeats(task_id, task_assignee_list),
         n_add |-> SumOver(added, UserIds),
         n_del |-> rows_deleted(rows, task_id,
                                assignees_to_remove(desired, current))]

\* the record of a call that raised or returned None before touching a row
plain_call(op, task_id, task_assignee_list, ret) ==
    [op |-> op, task |-> task_id, desired |-> {},
     n_args |-> Len(task_assignee_list), ret |-> ret,
     again |-> FALSE, n_add |-> 0, n_del |-> 0]

\* update_task_assignees(task, task_assignee_list), the caller holding the
\* task it looked up by id (None when there is no such task)
update_task_assignees(task_id, task_assignee_list) ==
    /\ tret' =
        IF task_id \notin DOMAIN case_tasks
        THEN plain_call("update_task_assignees", task_id, task_assignee_list,
                        "None")
        ELSE IF ~AllConvert(task_assignee_list)
        THEN plain_call("update_task_assignees", task_id, task_assignee_list,
                        "ValueError")
        ELSE assignee_call("update_task_assignees", task_assignee, task_id,
                           task_assignee_list)
    /\ task_assignee' =
        IF task_id \in DOMAIN case_tasks /\ AllConvert(task_assignee_list)
        THEN reconciled(task_assignee, task_id, task_assignee_list)
        ELSE task_assignee
    /\ UNCHANGED <<case_tasks, tasks_state>>
    /\ UNCHANGED alert_vars
    /\ UNCHANGED race_vars

(***************************************************************************)
(* update_task_assignees called by two requests at once.  Each call reads  *)
(* the rows of the task, and later commits the rows it adds and the        *)
(* deletions it makes; nothing is locked, and no version is compared.      *)
(***************************************************************************)
Callers == 1..NumWorkers

\* the lists the concurrent calls are made with: user ids as ints, each
\* once, in ascending order
AscendingIdLists ==
    {D \in AssigneeLists :
        /\ \A i \in DOMAIN D : D[i] \in {IntItem(n) : n \in UserIds}
        /\ \A i, j \in DOMAIN D : i < j => PyInt(D[i]).val < PyInt(D[j]).val}

\* a call under way: where it is, its arguments, and the TaskAssignee rows
\* as they were when it read cur_assignee_list
Caller(pc, task_id, task_assignee_list, seen) ==
    [pc |-> pc, task |-> task_id, list |-> task_assignee_list, seen |-> seen]

\* no call is under way
NoCallers == [c \in Callers |-> Caller("idle", NoId, <<>>, <<>>)]

\* TaskAssignee after the commit of a call that read the rows `seen`: the
\* rows it planned to add are added, the rows of the users it planned to
\* remove are deleted
rows_committed(rows, task_id, task_assignee_list, seen) ==
    LET current == set_cur_assignees(seen, task_id)
        desired == set_assignees(task_assignee_list)
        added   == rows_added(task_assignee_list, current)
        kept    == rows_after_remove(rows, task_id,
                                     assignees_to_remove(desired, current))
    IN  [k \in DOMAIN rows |->
            IF k[1] = task_id THEN kept[k] + added[k[2]] ELSE kept[k]]

\* a call starts and reads the current assignees; no call that ran beside
\* another is waiting to return
assignees_read(c, task_id, task_assignee_list) ==
    /\ \A d \in Callers : callers[d].pc # "done"
    /\ callers[c].pc = "idle"
    /\ task_id \in DOMAIN case_tasks
    /\ callers' = [callers EXCEPT ![c] =
          Caller("write", task_id, task_assignee_list, task_assignee)]
    /\ UNCHANGED <<task_vars, workers>>
    /\ UNCHANGED alert_vars

\* the two loops run and the call commits
assignees_commit(c) ==
    /\ callers[c].pc = "write"
    /\ task_assignee' = rows_committed(task_assignee, callers[c].task,
                                       callers[c].list, callers[c].seen)
    /\ callers' = [callers EXCEPT ![c] = [@ EXCEPT !.pc = "done"]]
    /\ UNCHANGED <<case_tasks, tasks_state, tret, workers>>
    /\ UNCHANGED alert_vars

\* the calls under way have all committed, and return
assignees_return ==
    /\ \E c \in Callers : callers[c].pc = "done"
    /\ \A c \in Callers : callers[c].pc \in {"idle", "done"}
    /\ callers' = NoCallers
    /\ UNCHANGED <<task_vars, workers>>
    /\ UNCHANGED alert_vars

\* update_tasks_state(caseid) of app.datamgmt.states: the case's task state
\* is recorded as updated once more
update_tasks_state(state, caseid) ==
    [state EXCEPT ![caseid] = @ + 1]

\* the record of an update_task_status call: its arguments, what raised in
\* it ("no", "state" for update_tasks_state, "commit"), and what it returned
status_call(task_status, task_id, caseid, raised, ret) ==
    [op |-> "update_task_status", task |-> task_id, desired |-> {},
     n_args |-> 0, ret |-> ret, again |-> FALSE, n_add |-> 0, n_del |-> 0,
     status |-> task_status, case |-> caseid, raised |-> raised]

\* update_task_status(task_status, task_id, caseid).  raises says what
\* raises should the call get that far: nothing ("no"), update_tasks_state
\* ("state") or the commit ("commit"); either leaves the function through
\* the bare except, with nothing committed
update_task_status(task_status, task_id, caseid, raises) ==
    LET task == get_task(task_id, caseid)
        done == task # NoId /\ raises = "no"
    IN  /\ tasks_state[caseid] < MaxStateUpdates
        /\ case_tasks' =
            IF done
            THEN [case_tasks EXCEPT ![task].task_status_id = task_status]
            ELSE case_tasks
        /\ tasks_state' =
            IF done THEN update_tasks_state(tasks_state, caseid)
            ELSE tasks_state
        /\ tret' = status_call(task_status, task_id, caseid,
                               IF task = NoId THEN "no" ELSE raises,
                               IF done THEN "True" ELSE "False")
        /\ UNCHANGED task_assignee
        /\ UNCHANGED alert_vars
        /\ UNCHANGED race_vars

\* add_task(task, assignee_id_list, user_id, caseid): the task is stored and
\* committed, its status re-applied through update_task_status (which updates
\* the task state again unless that raises, status_fails), then the
\* reconciler runs
add_task(status, assignee_id_list, caseid, status_fails) ==
    LET id == Cardinality(DOMAIN case_tasks) + 1
        stored == update_tasks_state(tasks_state, caseid)
    IN  /\ id <= MaxTasks
        /\ case_tasks' =
            [t \in DOMAIN case_tasks \cup {id} |->
                IF t = id
                THEN [task_case_id |-> caseid, task_status_id |-> status]
                ELSE case_tasks[t]]
        /\ tasks_state' =
            IF status_fails THEN stored ELSE update_tasks_state(stored, caseid)
        /\ tret' =
            IF ~AllConvert(assignee_id_list)
            THEN plain_call("add_task", id, assignee_id_list, "ValueError")
            ELSE assignee_call("add_task", task_assignee, id, assignee_id_list)
        /\ task_assignee' =
            IF AllConvert(assignee_id_list)
            THEN reconciled(task_assignee, id, assignee_id_list)
            ELSE task_assignee
        /\ UNCHANGED alert_vars
        /\ UNCHANGED race_vars

(***************************************************************************)
(* Specifications.                                                         *)
(***************************************************************************)
\* no request in flight, the alert tables of a fresh installation: no
\* alert, the initial case with its grant
AlertsAtRest ==
    /\ alert_status = AllAlertStatus
    /\ alerts = <<>>
    /\ similar_cache = {}
    /\ cases = [c \in {1} |-> [description |-> <<>>]]
    /\ case_access = {1}
    /\ deleted = {}
    /\ req = NoReq
    /\ resp = NoResp
    /\ comments = <<>>
    /\ clock = 0
    /\ workers = NoWorkers

\* the task tables of a fresh installation, no call made
TasksAtRest ==
    /\ case_tasks = <<>>
    /\ task_assignee = [k \in TaskIds \X UserIds |-> 0]
    /\ tasks_state = [c \in TaskCaseIds |-> 0]
    /\ tret = plain_call("init", NoId, <<>>, "None")
    /\ callers = NoCallers

InitTasks == TasksAtRest /\ AlertsAtRest

NextTasks ==
    \/ \E t \in TaskIds, D \in AssigneeLists : update_task_assignees(t, D)
    \/ \E D \in AssigneeLists, c \in TaskCaseIds, f \in BOOLEAN :
          add_task(1, D, c, f)

SpecTasks == InitTasks /\ [][NextTasks]_vars

\* tasks are added without assignees, and update_task_assignees is called for them by
\* requests that run side by side
NextAssignees ==
    \/ \E c \in TaskCaseIds : add_task(1, <<>>, c, FALSE)
    \/ \E c \in Callers, t \in TaskIds, D \in AscendingIdLists :
          assignees_read(c, t, D)
    \/ \E c \in Callers : assignees_commit(c)
    \/ assignees_return

SpecAssignees == InitTasks /\ [][NextAssignees]_vars

\* tasks are added, with either status and no assignee, and their status
\* is updated
NextTaskStatus ==
    \/ \E s \in TaskStatusIds, c \in TaskCaseIds, f \in BOOLEAN :
          add_task(s, <<>>, c, f)
    \/ \E s \in TaskStatusIds, t \in TaskIds, c \in TaskCaseIds,
          raises \in {"no", "state", "commit"} :
          update_task_status(s, t, c, raises)

SpecTaskStatus == InitTasks /\ [][NextTaskStatus]_vars

\* the Status Registry as seeded, or with the "Escalated" or the "Merged"
\* row missing
Registries ==
    {AllAlertStatus} \cup
    {{row \in AllAlertStatus : row.status_name # n} : n \in {"Escalated", "Merged"}}

InitAlerts ==
    /\ TasksAtRest
    /\ alert_status \in Registries
    /\ alerts = <<>>
    /\ similar_cache = {}
    /\ cases = [c \in {1} |-> [description |-> <<>>]]
    /\ case_access = {1}
    /\ deleted = {}
    /\ req = NoReq
    /\ resp = NoResp
    /\ comments = <<>>
    /\ clock = 0
    /\ workers = NoWorkers

NextAlerts ==
    \/ \E r \in Requests : Receive(r)
    \/ alerts_get_route
    \/ alerts_add_route
    \/ alerts_update_route
    \/ alerts_delete_route
    \/ alerts_escalate_route
    \/ alerts_merge_route
    \/ alerts_batch_merge_route
    \/ alerts_batch_escalate_route
    \/ Return

SpecAlerts == InitAlerts /\ [][NextAlerts]_vars

\* comments on alerts: alerts are created, commented on and deleted while
\* time passes
InitComments == TasksAtRest /\ AlertsAtRest

\* the requests made while alerts are commented on: alerts are created
\* New, deleted, and commented on
RequestsWithComments ==
    {r \in Requests : r.op \in {"add", "delete"} /\ r.alert_status_id \in {NoId, 1}}
    \cup CommentRequests

NextComments ==
    \/ \E r \in RequestsWithComments : Receive(r)
    \/ alerts_add_route
    \/ alerts_delete_route
    \/ case_comment_add
    \/ Tick
    \/ Return

SpecComments == InitComments /\ [][NextComments]_vars

\* batch updates: alerts are created, updated in batches and deleted
RequestsWithBatchUpdate ==
    {r \in Requests : r.op \in {"add", "delete"}} \cup BatchUpdateRequests

NextBatchUpdate ==
    \/ \E r \in RequestsWithBatchUpdate : Receive(r)
    \/ alerts_add_route
    \/ alerts_delete_route
    \/ alerts_batch_update_route
    \/ Return

SpecBatchUpdate == InitAlerts /\ [][NextBatchUpdate]_vars

\* escalate requests served side by side, while alerts are created with
\* the first status
NextEscalations ==
    \/ Receive(Request("add", NoId, "json", NoId, <<>>, NoNote, 1))
    \/ alerts_add_route
    \/ Return
    \/ \E w \in Workers, a \in AlertIds, b \in {"none", "json"} :
          escalate_begin(w, a, b)
    \/ \E w \in Workers : escalate_read(w)
    \/ \E w \in Workers : escalate_status(w)
    \/ \E w \in Workers : escalate_create(w)
    \/ \E w \in Workers : escalate_end(w)

SpecEscalations == InitAlerts /\ [][NextEscalations]_vars

(***************************************************************************)
(* Properties of the assignment reconciler.                                *)
(***************************************************************************)
\* the last call ran update_task_assignees to its commit
ReconcilerReturned(r) == r.op = "update_task_assignees" /\ r.ret = "task"

\* C1: after update_task_assignees(T, D) returns, the users assigned to T are
\* exactly the ids of D (as integers) whose user exists or that were assigned
\* before the call, one row each; the rows of every other task are as before.
C1_ReconcilerReplacesAssignees ==
    [][ReconcilerReturned(tret') =>
         LET t == tret'.task
             before == {u \in UserIds : task_assignee[<<t, u>>] > 0}
             after == {u \in UserIds : task_assignee'[<<t, u>>] > 0}
         IN  /\ after = {u \in tret'.desired : u \in Users \/ u \in before}
             /\ \A k \in DOMAIN task_assignee :
                    k[1] # t => task_assignee'[k] = task_assignee[k]
       ]_vars

\* a call that added a user, removed another and skipped an id with no user
C1_Witness ==
    /\ ReconcilerReturned(tret)
    /\ tret.n_add >= 1
    /\ tret.n_del >= 1
    /\ tret.desired \ Users # {}
    /\ \E k \in DOMAIN task_assignee : k[1] # tret.task /\ task_assignee[k] > 0

\* C2: a call of update_task_assignees that repeats the call before it (same
\* task, same desired ids) creates no row, deletes none and leaves every
\* assignee row as it was; so does a call whose desired ids with an existing
\* user are the task's current assignees.
C2_ReconcilerIdempotent ==
    [][ReconcilerReturned(tret') =>
         LET t == tret'.task
             before == {u \in UserIds : task_assignee[<<t, u>>] > 0}
         IN  (tret'.again \/ tret'.desired \cap Users = before) =>
                /\ tret'.n_add = 0
                /\ tret'.n_del = 0
                /\ task_assignee' = task_assignee
       ]_vars

\* a repeated call whose list names a user that does not exist, on a task
\* that has an assignee
C2_Witness ==
    /\ ReconcilerReturned(tret)
    /\ tret.again
    /\ tret.desired \ Users # {}
    /\ tret.desired \cap Users # {}
    /\ task_assignee[<<tret.task, CHOOSE u \in tret.desired \cap Users : TRUE>>] = 1

\* C8: no task has two assignee rows for the same user.
C8_NoDuplicateAssignee ==
    \A k \in DOMAIN task_assignee : task_assignee[k] <= 1

\* a call sent the same id more than once and created a row for it
C8_Witness ==
    /\ tret.ret = "task"
    /\ tret.n_args > Cardinality(tret.desired)
    /\ tret.n_add >= 1

(***************************************************************************)
(* Properties of the alert routes (SpecAlerts).                            *)
(***************************************************************************)
\* the step in which the route of the pending request runs to its return
Handles(op) == Pending(op) /\ resp' # NoResp

\* the route made no call into alerts_db and none of the after-creation steps
NothingDone(response) == response.calls = <<>> /\ response.events = <<>>

\* C3: escalating an alert id that does not resolve returns the error "Alert
\* not found" whatever the body is (none, {} or a payload): the route leaves
\* every alert, the cache, the cases and the grants as they were and makes no
\* call to create a case.
C3_EscalateMissingAlert ==
    [][(Handles("escalate") /\ ~alert_exists(alerts, req.alert_id)) =>
          /\ resp'.status = "error"
          /\ resp'.msg = "Alert not found"
          /\ NothingDone(resp')
          /\ UNCHANGED alert_db]_vars

\* an escalate without a JSON body, for an id that is not there while another
\* alert is, was answered "Alert not found"
C3_Witness ==
    /\ req.op = "escalate"
    /\ req.body = "none"
    /\ ~alert_exists(alerts, req.alert_id)
    /\ DOMAIN alerts # {}
    /\ resp.status = "error"
    /\ resp.msg = "Alert not found"

\* C4: merging an alert that exists into a target case id that does not
\* resolve returns "Target case not found" and changes nothing, the alert's
\* status included; an alert that is missing gives "Alert not found"
\* instead; and the route changes a status only with both the alert and the
\* case found.
C4_MergeMissingCase ==
    [][(Handles("merge") /\ req.body # "none" /\ req.target_case_id # NoId) =>
          /\ (alert_exists(alerts, req.alert_id)
                /\ ~case_exists(req.target_case_id)) =>
                   /\ resp'.status = "error"
                   /\ resp'.msg = "Target case not found"
                   /\ NothingDone(resp')
                   /\ UNCHANGED alert_db
          /\ ~alert_exists(alerts, req.alert_id) =>
                   /\ resp'.status = "error"
                   /\ resp'.msg = "Alert not found"
                   /\ UNCHANGED alert_db
          /\ alerts' # alerts =>
                   /\ alert_exists(alerts, req.alert_id)
                   /\ case_exists(req.target_case_id)]_vars

\* a merge of an alert that is there, still New, into a case that is not was
\* answered "Target case not found"
C4_Witness ==
    /\ req.op = "merge"
    /\ alert_exists(alerts, req.alert_id)
    /\ alerts[req.alert_id].alert_status_id = 1
    /\ ~case_exists(req.target_case_id)
    /\ resp.status = "error"
    /\ resp.msg = "Target case not found"

\* the ids a batch names, in the order of alert_ids (every piece an integer)
BatchIds(r) ==
    LET pieces == SplitComma(r.alert_ids)
    IN  [i \in DOMAIN pieces |-> PyInt(StrItem(pieces[i])).val]

\* every piece of alert_ids converts with int()
BatchIdsConvert(r) ==
    \A i \in DOMAIN SplitComma(r.alert_ids) :
        PyInt(StrItem(SplitComma(r.alert_ids)[i])).ok

\* the ids of a batch that resolve to an alert, in order
BatchResolved(r) == SelectSeq(BatchIds(r), LAMBDA a : alert_exists(alerts, a))

\* C5: a batch merge into a case that exists, whose ids are all integers,
\* with "Merged" in the registry and no merge raising, succeeds whether or
\* not every id resolves: the alerts that resolve are each set to Merged and
\* merged into the target, in order, by a call that is given no note; the
\* ids that do not resolve are skipped, no alert appearing for them; and a
\* note that was supplied is in the case description exactly once more than
\* before, the description being untouched when no note was supplied.
C5_BatchMergeSkipsAndNotesOnce ==
    [][(/\ Handles("batch_merge")
        /\ batch_merge_refusal(req) = ""
        /\ BatchIdsConvert(req)
        /\ \E row \in alert_status : row.status_name = "Merged"
        /\ \A i \in DOMAIN resp'.calls : resp'.calls[i].ok) =>
          LET resolved == BatchResolved(req)
              target == req.target_case_id
          IN  /\ resp'.status = "success"
              /\ resp'.case = target
              /\ Len(resp'.calls) = Len(resolved)
              /\ \A i \in DOMAIN resolved :
                    /\ resp'.calls[i].fn = "merge_alert_in_case"
                    /\ resp'.calls[i].alerts = <<resolved[i]>>
                    /\ resp'.calls[i].case = target
                    /\ resp'.calls[i].note = NoNote
                    /\ alerts'[resolved[i]].alert_status_id =
                           status_id_by_name("Merged")
              /\ DOMAIN alerts' = DOMAIN alerts
              /\ \A a \in DOMAIN alerts :
                    (\A i \in DOMAIN resolved : resolved[i] # a) =>
                        alerts'[a] = alerts[a]
              /\ DOMAIN cases' = DOMAIN cases
              /\ \A c \in DOMAIN cases \ {target} : cases'[c] = cases[c]
              /\ IF Truthy(req.note)
                 THEN /\ NoteCount(cases'[target].description, req.note) =
                           NoteCount(cases[target].description, req.note) + 1
                      /\ Len(cases'[target].description) <=
                           Len(cases[target].description) + 2
                 ELSE cases'[target] = cases[target]]_vars

\* a batch of three ids with a note was served: the second id does not
\* resolve, the first and the third were merged by the two calls made, and
\* the note is in the description once, behind the header
C5_Witness ==
    /\ req.op = "batch_merge"
    /\ resp.status = "success"
    /\ Truthy(req.note)
    /\ Len(BatchIds(req)) = 3
    /\ BatchIdsConvert(req)
    /\ alert_exists(alerts, BatchIds(req)[1])
    /\ ~alert_exists(alerts, BatchIds(req)[2])
    /\ alert_exists(alerts, BatchIds(req)[3])
    /\ Len(resp.calls) = 2
    /\ resp.calls[1].alerts = <<BatchIds(req)[1]>>
    /\ resp.calls[2].alerts = <<BatchIds(req)[3]>>
    /\ alerts[BatchIds(req)[1]].alert_status_id = status_id_by_name("Merged")
    /\ NoteCount(cases[req.target_case_id].description, req.note) = 1
    /\ NoteCount(cases[req.target_case_id].description, NoteHeader) = 1

\* the routes that take the id of one alert in their path
SingleAlertOps == {"get", "update", "escalate", "merge", "delete"}

\* C6 as stated: once an alert was deleted, and until an alert is created
\* under its id again, every fetch, update, escalate, merge or delete of the
\* id is answered "Alert not found".
C6_DeletedAlwaysNotFound ==
    [][\A op \in SingleAlertOps :
          (Handles(op) /\ req.alert_id \in deleted) =>
              resp'.msg = "Alert not found"]_vars

\* what a route answers for an alert id that does not resolve: update and
\* merge look at the body first
MissingAlertAnswer(r) ==
    IF r.op = "update" /\ r.body # "json" THEN "No JSON data provided"
    ELSE IF r.op = "merge" /\ r.body = "none" THEN "No JSON data provided"
    ELSE IF r.op = "merge" /\ r.target_case_id = NoId
    THEN "No target case id provided"
    ELSE "Alert not found"

\* C6 (amended): a delete that succeeds removes the alert and its similarity
\* cache entry and nothing else.  From then on, until an alert is created
\* under the id again, the id does not resolve, and every fetch, escalate or
\* delete of it is refused with "Alert not found"; so is an update that
\* carries a non-empty JSON body and a merge that carries a body with a
\* target_case_id, while an update without one is refused with "No JSON data
\* provided" and a merge with "No JSON data provided" or "No target case id
\* provided".  Every one of these refusals, the delete of an id that never
\* existed included, changes nothing.
C6_DeleteThenNotFound ==
    [][/\ (Handles("delete") /\ resp'.status = "success") =>
             /\ alert_exists(alerts, req.alert_id)
             /\ ~alert_exists(alerts', req.alert_id)
             /\ req.alert_id \notin similar_cache'
             /\ req.alert_id \in deleted'
             /\ \A a \in DOMAIN alerts \ {req.alert_id} :
                   alert_exists(alerts', a) /\ alerts'[a] = alerts[a]
             /\ similar_cache' = similar_cache \ {req.alert_id}
             /\ UNCHANGED <<cases, case_access, alert_status>>
       /\ \A op \in SingleAlertOps :
             (Handles(op) /\ ~alert_exists(alerts, req.alert_id)) =>
                 /\ resp'.status = "error"
                 /\ resp'.msg = MissingAlertAnswer(req)
                 /\ NothingDone(resp')
                 /\ UNCHANGED alert_db
       /\ \A a \in deleted : ~alert_exists(alerts, a)
       /\ \A a \in deleted \ deleted' : Handles("add") /\ alert_exists(alerts', a)
      ]_vars

\* after its delete, an update of the alert with a payload was answered
\* "Alert not found", the cache entry being gone
C6_Witness ==
    /\ req.op = "update"
    /\ req.body = "json"
    /\ req.alert_id \in deleted
    /\ req.alert_id \notin similar_cache
    /\ ~alert_exists(alerts, req.alert_id)
    /\ DOMAIN alerts # {}
    /\ resp.msg = "Alert not found"

\* the routes of the alert workflow and the status name each one looks up
WorkflowOps == {"escalate", "merge", "batch_merge", "batch_escalate"}

NamedStatus(op) == IF op = "escalate" THEN "Escalated" ELSE "Merged"

\* the ids the seeded registry gives to "Escalated" and "Merged"
TerminalStatusIds ==
    {row.status_id : row \in {x \in AllAlertStatus :
                                 x.status_name \in {"Escalated", "Merged"}}}

\* the alerts a response says were passed to a case creation or a merge
PassedOn(response) ==
    UNION {{response.calls[i].alerts[j] : j \in DOMAIN response.calls[i].alerts} :
             i \in DOMAIN response.calls}

\* C9: an Escalate, Merge, BatchMerge or BatchEscalate leaves every alert
\* whose status is already Escalated or Merged as it is: its status is not
\* set again, and it is passed neither to a case creation nor to a merge.
C9_TerminalAlertsLeftAlone ==
    [][\A op \in WorkflowOps :
          Handles(op) =>
              \A a \in DOMAIN alerts :
                  alerts[a].alert_status_id \in TerminalStatusIds =>
                      /\ alert_exists(alerts', a)
                      /\ alerts'[a] = alerts[a]
                      /\ a \notin PassedOn(resp')]_vars

\* every alert's status is the id of a row of the Status Registry
StatusInRegistry ==
    \A a \in DOMAIN alerts : status_known(alerts[a].alert_status_id)

\* the status name the route looks up has no row
NamedStatusAbsent(op) ==
    \A row \in alert_status : row.status_name # NamedStatus(op)

\* C10 as stated: every alert's status references a registry entry, and a
\* workflow operation whose named status is absent from the registry ends
\* in an error response, with no alert's status changed and no case created
\* or modified.
C10_AbsentStatusAlwaysError ==
    [][/\ StatusInRegistry'
       /\ \A op \in WorkflowOps :
             (Handles(op) /\ NamedStatusAbsent(op)) =>
                 /\ resp'.status = "error"
                 /\ alerts' = alerts
                 /\ cases' = cases]_vars

\* the request is one the route serves up to an alert that resolves; of a
\* batch, one of the ids must resolve
ReachesAnAlert(r) ==
    IF r.op \in {"escalate", "merge"} THEN TRUE
    ELSE /\ r.alert_ids # <<>>
         /\ \E i \in DOMAIN SplitComma(r.alert_ids) :
               LET id == PyInt(StrItem(SplitComma(r.alert_ids)[i]))
               IN  id.ok /\ alert_exists(alerts, id.val)

\* C10 (amended): every alert's status references a registry entry; a
\* workflow operation changes the status of an alert only to the id it
\* resolved from the registry under its status name; and while that name is
\* absent from the registry the operation changes no alert's status, and
\* ends in an error response with no case created or modified and no call
\* made, whenever it is a single escalate or merge or a batch one of whose
\* ids resolves.  (A batch none of whose ids resolves never looks the status
\* up: it is served as with the registry complete.)
C10_StatusFromRegistry ==
    [][/\ StatusInRegistry'
       /\ \A op \in WorkflowOps :
             Handles(op) =>
               /\ \A a \in DOMAIN alerts :
                     /\ alert_exists(alerts', a)
                     /\ alerts'[a] # alerts[a] =>
                           /\ ~NamedStatusAbsent(op)
                           /\ alerts'[a].alert_status_id =
                                  status_id_by_name(NamedStatus(op))
               /\ NamedStatusAbsent(op) =>
                     /\ alerts' = alerts
                     /\ ReachesAnAlert(req) =>
                           /\ resp'.status = "error"
                           /\ NothingDone(resp')
                           /\ UNCHANGED alert_db]_vars

\* with no "Merged" in the registry, a batch merge with a note, one of whose
\* ids resolves, ended in an error: the alert is still New and the note is
\* not in the description of the target case
C10_Witness ==
    /\ req.op = "batch_merge"
    /\ NamedStatusAbsent("batch_merge")
    /\ Truthy(req.note)
    /\ case_exists(req.target_case_id)
    /\ ReachesAnAlert(req)
    /\ resp.status = "error"
    /\ resp.msg = "Exception"
    /\ \A a \in DOMAIN alerts : alerts[a].alert_status_id = 1
    /\ NoteCount(cases[req.target_case_id].description, req.note) = 0

(***************************************************************************)
(* Properties of the comment route (SpecComments).                         *)
(***************************************************************************)
\* C7: a comment created on an alert that exists refers to that alert, has
\* the requesting user as its author, and has its creation date and its
\* update date both set, to the same value, the clock being free to advance
\* between any two readings.
C7_CommentAsCreated ==
    [][(Handles("comment_add") /\ resp'.status = "success") =>
          /\ alert_exists(alerts, req.alert_id)
          /\ Len(comments') = Len(comments) + 1
          /\ LET comment == comments'[Len(comments')]
             IN  /\ comment.comment_alert_id = req.alert_id
                 /\ comment.comment_user_id = req.user
                 /\ comment.comment_date \in clock..clock'
                 /\ comment.comment_update_date \in clock..clock'
                 /\ comment.comment_date = comment.comment_update_date]_vars

\* the routes that create a case from alerts
EscalateOps == {"escalate", "batch_escalate"}

\* the route called the case creation and got no case from it
CreationFailed(response) ==
    /\ Len(response.calls) = 1
    /\ response.calls[1].fn \in {"create_case_from_alert",
                                 "create_case_from_alerts"}
    /\ response.calls[1].case = NoId

\* C11: when the case creation of a single-alert escalate fails (it returns
\* no case, or raises), the request ends in an error response, none of the
\* grant, hook, history and audit steps is made, no case and no grant
\* appears, and the alert is marked Escalated: the status was committed
\* before the creation and stays.
C11_EscalatedDespiteFailedCreation ==
    [][(Handles("escalate") /\ CreationFailed(resp')) =>
          /\ resp'.status = "error"
          /\ resp'.case = NoId
          /\ resp'.events = <<>>
          /\ cases' = cases
          /\ case_access' = case_access
          /\ alert_exists(alerts', req.alert_id)
          /\ alerts'[req.alert_id].alert_status_id =
                 status_id_by_name("Escalated")
          /\ status_id_by_name("Escalated") # NoId]_vars

\* an escalate whose case creation raised was answered with an error; the
\* alert is Escalated and there is still no case but the initial one
C11_Witness ==
    /\ req.op = "escalate"
    /\ CreationFailed(resp)
    /\ ~resp.calls[1].ok
    /\ resp.status = "error"
    /\ alerts[req.alert_id].alert_status_id = status_id_by_name("Escalated")
    /\ DOMAIN cases = {1}

\* the steps in the order grant, hook, history, audit
GrantHookHistoryAudit == <<"grant", "hook", "history", "audit">>

\* C12: in Escalate and BatchEscalate the steps made for a created case are
\* always a beginning of grant, hook, history, audit, in that order; the
\* case has its access grant exactly when the grant step was made; and a
\* success response carries the newly created case, with its grant given
\* and all four steps made.
C12_GrantBeforeHookHistoryAudit ==
    [][\A op \in EscalateOps :
          Handles(op) =>
            /\ \E k \in 0..4 : resp'.events = SubSeq(GrantHookHistoryAudit, 1, k)
            /\ \A c \in DOMAIN cases' \ DOMAIN cases :
                  c \in case_access' <=> (resp'.events # <<>>)
            /\ resp'.events # <<>> => DOMAIN cases' # DOMAIN cases
            /\ resp'.status = "success" =>
                  /\ resp'.case \in DOMAIN cases' \ DOMAIN cases
                  /\ resp'.case \in case_access'
                  /\ resp'.events = GrantHookHistoryAudit]_vars

\* a batch escalate returned its new case, granted, after the four steps
C12_Witness ==
    /\ req.op = "batch_escalate"
    /\ resp.status = "success"
    /\ resp.case \in case_access
    /\ resp.events = GrantHookHistoryAudit

\* C13: a batch escalate whose ids are all integers (with "Merged" in the
\* registry when one of them resolves) calls the case creation exactly
\* once, with exactly the alerts that resolve, in list order, also when none
\* resolves; every one of them has been set to Merged, not Escalated; the
\* ids that do not resolve are skipped and no other alert changes; and
\* the request adds one case when the creation returns one, none otherwise.
C13_BatchEscalateOneCase ==
    [][(/\ Handles("batch_escalate")
        /\ req.body # "none"
        /\ req.alert_ids # <<>>
        /\ BatchIdsConvert(req)
        /\ (BatchResolved(req) # <<>> => ~NamedStatusAbsent("batch_escalate"))) =>
          LET resolved == BatchResolved(req)
          IN  /\ Len(resp'.calls) = 1
              /\ resp'.calls[1].fn = "create_case_from_alerts"
              /\ resp'.calls[1].alerts = resolved
              /\ DOMAIN alerts' = DOMAIN alerts
              /\ \A a \in DOMAIN alerts :
                    IF \E i \in DOMAIN resolved : resolved[i] = a
                    THEN /\ alerts'[a].alert_status_id =
                                status_id_by_name("Merged")
                         /\ alerts'[a].alert_status_id #
                                status_id_by_name("Escalated")
                    ELSE alerts'[a] = alerts[a]
              /\ IF resp'.calls[1].case = NoId
                 THEN cases' = cases /\ resp'.status = "error"
                 ELSE /\ DOMAIN cases' = DOMAIN cases \cup {resp'.calls[1].case}
                      /\ resp'.calls[1].case \notin DOMAIN cases
                      /\ \A c \in DOMAIN cases : cases'[c] = cases[c]]_vars

\* a batch escalate of two alerts made the one new case from both of them,
\* both Merged
C13_Witness ==
    /\ req.op = "batch_escalate"
    /\ resp.status = "success"
    /\ Len(resp.calls) = 1
    /\ Len(resp.calls[1].alerts) = 2
    /\ resp.calls[1].alerts[1] # resp.calls[1].alerts[2]
    /\ \A a \in DOMAIN alerts :
          alerts[a].alert_status_id = status_id_by_name("Merged")
    /\ Cardinality(DOMAIN cases) = 2
    /\ resp.case = 2

(***************************************************************************)
(* Properties of the batch update route (SpecBatchUpdate).                 *)
(***************************************************************************)
\* the places in the id list of a batch update whose id does not resolve
MissingAt(r) == {i \in DOMAIN r.id_list : ~alert_exists(alerts, r.id_list[i])}

\* the place of the first id that does not resolve, past the end when all do
FirstMissing(r) ==
    IF MissingAt(r) = {} THEN Len(r.id_list) + 1
    ELSE CHOOSE i \in MissingAt(r) : \A j \in MissingAt(r) : i <= j

\* the alerts named in the list before the first id that does not resolve
BeforeFirstMissing(r) == {r.id_list[i] : i \in 1..(FirstMissing(r) - 1)}

\* C14: a batch update with a status the registry holds stops at the first
\* id that does not resolve, with an error naming that id: the alerts named
\* before it have the new status, committed, and no other alert, those named
\* after it included, is changed.  The route answers success exactly when
\* every id resolved and every update was committed, all the alerts named
\* having the new status then.
C14_BatchUpdateAbortsAtFirstMissing ==
    [][(/\ Handles("batch_update")
        /\ req.body = "json"
        /\ req.id_list # <<>>) =>
          LET k == FirstMissing(req)
              before == BeforeFirstMissing(req)
              valid == status_known(req.alert_status_id)
          IN  /\ (valid /\ MissingAt(req) # {}) =>
                    /\ resp'.status = "error"
                    /\ resp'.msg = "Alert with ID not found"
                    /\ resp'.named = req.id_list[k]
              /\ valid =>
                    /\ DOMAIN alerts' = DOMAIN alerts
                    /\ \A a \in DOMAIN alerts :
                          IF a \in before
                          THEN alerts'[a].alert_status_id = req.alert_status_id
                          ELSE alerts'[a] = alerts[a]
              /\ ~valid => alerts' = alerts
              /\ resp'.status = "success" <=> (valid /\ MissingAt(req) = {})
              /\ resp'.status = "success" =>
                    \A i \in DOMAIN req.id_list :
                        alerts'[req.id_list[i]].alert_status_id =
                            req.alert_status_id]_vars

\* a batch update of three ids stopped at the second, which does not
\* resolve: the first alert has the new status, the third has not
C14_Witness ==
    /\ req.op = "batch_update"
    /\ Len(req.id_list) = 3
    /\ resp.status = "error"
    /\ resp.named = req.id_list[2]
    /\ alert_exists(alerts, req.id_list[1])
    /\ alert_exists(alerts, req.id_list[3])
    /\ req.id_list[1] # req.id_list[3]
    /\ alerts[req.id_list[1]].alert_status_id = req.alert_status_id
    /\ alerts[req.id_list[3]].alert_status_id # req.alert_status_id
    /\ resp.events = <<"audit">>

(***************************************************************************)
(* C15: when escalate requests for the same alert are served side by side, *)
(* each reading the alert, then setting the status to "Escalated" and      *)
(* committing, then creating the case and committing, the alert is         *)
(* "Escalated" from the first status commit on in every interleaving: a    *)
(* request that has committed the status finds the alert "Escalated" until *)
(* it returns, whatever the other request does meanwhile, no step of any   *)
(* request takes the alert out of "Escalated", and a request whose case    *)
(* creation failed answers with an error, adds no case, and leaves the     *)
(* status as it was committed.                                             *)
(***************************************************************************)
C15_EscalatedFromFirstCommitOn ==
    [][LET \* the worker has committed the status of its alert
           StatusCommitted(worker) ==
               \/ worker.pc = "create"
               \/ worker.pc = "done" /\ worker.resp.calls # <<>>
           IsEscalated(rows, alert_id) ==
               /\ alert_id \in DOMAIN rows
               /\ status_id_by_name("Escalated") # NoId
               /\ rows[alert_id].alert_status_id =
                      status_id_by_name("Escalated")
       IN  /\ \A w \in Workers :
                StatusCommitted(workers'[w]) =>
                    IsEscalated(alerts', workers'[w].alert_id)
           /\ \A a \in AlertIds :
                IsEscalated(alerts, a) => IsEscalated(alerts', a)
           /\ \A w \in Workers :
                (workers[w].pc = "create" /\ workers'[w].pc = "done"
                    /\ CreationFailed(workers'[w].resp)) =>
                   /\ workers'[w].resp.status = "error"
                   /\ cases' = cases
                   /\ alerts' = alerts]_vars

\* two requests for the same alert interleave: one has committed the status
\* and failed to create its case, the alert is "Escalated" and no case was
\* made, while the other, which read the alert before that commit, has yet
\* to create its case
C15_Witness ==
    \E w, v \in Workers :
        /\ w # v
        /\ workers[w].alert_id = workers[v].alert_id
        /\ workers[w].pc = "done"
        /\ CreationFailed(workers[w].resp)
        /\ workers[v].pc = "create"
        /\ workers[w].alert_id \in DOMAIN alerts
        /\ status_id_by_name("Escalated") # NoId
        /\ alerts[workers[w].alert_id].alert_status_id =
               status_id_by_name("Escalated")
        /\ DOMAIN cases = {1}

(***************************************************************************)
(* C16: batch merge has no atomicity across alerts.  When the k-th id of   *)
(* the list fails, its merge raising or the id being no integer, the       *)
(* request ends in an error; the alerts named before it that resolve are   *)
(* "Merged" and were each merged into the case by a call that returned; the *)
(* k-th alert is "Merged" although its merge raised, and is untouched when *)
(* its id is no integer; alerts named only after the k-th id are as they   *)
(* were; and the note is not appended, the case description being as it    *)
(* was.                                                                    *)
(***************************************************************************)
\* the ids among the first n of the batch that resolve to an alert, in order
ResolvedUpTo(r, n) ==
    SelectSeq(SubSeq(BatchIds(r), 1, n), LAMBDA a : alert_exists(alerts, a))

\* the k-th piece of alert_ids is the first that is no integer
FirstNotInteger(r, k) ==
    /\ k \in DOMAIN SplitComma(r.alert_ids)
    /\ ~PyInt(StrItem(SplitComma(r.alert_ids)[k])).ok
    /\ \A i \in 1..(k - 1) : PyInt(StrItem(SplitComma(r.alert_ids)[i])).ok

\* the alerts named before the failing id are "Merged", each merged by a
\* call that returned, the alerts in `untouched` are as they were, and no
\* case has changed
MergedBeforeFailure(earlier, untouched) ==
    /\ \A i \in DOMAIN earlier :
          /\ resp'.calls[i].fn = "merge_alert_in_case"
          /\ resp'.calls[i].alerts = <<earlier[i]>>
          /\ resp'.calls[i].case = req.target_case_id
          /\ resp'.calls[i].ok
          /\ alerts'[earlier[i]].alert_status_id = status_id_by_name("Merged")
    /\ DOMAIN alerts' = DOMAIN alerts
    /\ \A a \in untouched : alerts'[a] = alerts[a]
    /\ cases' = cases

C16_BatchMergeNotAtomic ==
    [][(/\ Handles("batch_merge")
        /\ batch_merge_refusal(req) = ""
        /\ \E row \in alert_status : row.status_name = "Merged") =>
          LET pieces == SplitComma(req.alert_ids)
              n == Len(resp'.calls)
          IN  /\ (\E k \in DOMAIN pieces : FirstNotInteger(req, k)
                    /\ \A i \in DOMAIN resp'.calls : resp'.calls[i].ok) =>
                    \E k \in DOMAIN pieces :
                       LET earlier == ResolvedUpTo(req, k - 1)
                       IN  /\ FirstNotInteger(req, k)
                           /\ resp'.status = "error"
                           /\ n = Len(earlier)
                           /\ MergedBeforeFailure(earlier,
                                 DOMAIN alerts \ {earlier[i] : i \in DOMAIN earlier})
              /\ (n > 0 /\ ~resp'.calls[n].ok) =>
                    \E k \in DOMAIN pieces :
                       LET earlier == ResolvedUpTo(req, k - 1)
                           upto == ResolvedUpTo(req, k)
                       IN  /\ \A i \in 1..k : PyInt(StrItem(pieces[i])).ok
                           /\ alert_exists(alerts, BatchIds(req)[k])
                           /\ resp'.status = "error"
                           /\ n = Len(upto)
                           /\ resp'.calls[n].alerts = <<BatchIds(req)[k]>>
                           /\ alerts'[BatchIds(req)[k]].alert_status_id =
                                  status_id_by_name("Merged")
                           /\ MergedBeforeFailure(earlier,
                                 DOMAIN alerts \ {upto[i] : i \in DOMAIN upto})
              /\ resp'.status = "success" =>
                    /\ BatchIdsConvert(req)
                    /\ \A i \in DOMAIN resp'.calls : resp'.calls[i].ok]_vars

\* a batch naming two alerts first, with a note, was served and the merge
\* of the second raised: the first is "Merged" and merged, the second is "Merged" and not
\* merged, and the description of the case has no note
C16_Witness ==
    /\ req.op = "batch_merge"
    /\ Truthy(req.note)
    /\ BatchIdsConvert(req)
    /\ Len(BatchIds(req)) = MaxIds
    /\ BatchIds(req)[1] # BatchIds(req)[2]
    /\ resp.status = "error"
    /\ Len(resp.calls) = 2
    /\ resp.calls[1].ok
    /\ ~resp.calls[2].ok
    /\ resp.calls[2].alerts = <<BatchIds(req)[2]>>
    /\ \A i \in 1..2 :
          /\ alert_exists(alerts, BatchIds(req)[i])
          /\ alerts[BatchIds(req)[i]].alert_status_id = status_id_by_name("Merged")
    /\ NoteCount(cases[req.target_case_id].description, req.note) = 0

(***************************************************************************)
(* C17: under any interleaving of two update_task_assignees calls on the   *)
(* same task, once both have committed the TaskAssignee rows are what the  *)
(* two calls leave when run one after the other in one of the two orders,  *)
(* and no (task, user) pair has more than one row unless it had before.    *)
(***************************************************************************)
C17_ConcurrentCallsAsIfSerial ==
    LET \* no user has two rows for the task
        NoDuplicateRows(rows, task_id) ==
            \A u \in UserIds : rows[<<task_id, u>>] <= 1
        \* the rows after the call of c and then that of d, from `rows`
        OneAfterTheOther(rows, c, d) ==
            reconciled(reconciled(rows, callers[c].task, callers[c].list),
                       callers[d].task, callers[d].list)
    IN  \A c, d \in Callers :
            (/\ c # d
             /\ callers[c].pc = "done"
             /\ callers[d].pc = "done"
             /\ callers[c].task = callers[d].task) =>
                /\ NoDuplicateRows(callers[c].seen, callers[c].task) =>
                      NoDuplicateRows(task_assignee, callers[c].task)
                /\ \/ task_assignee = OneAfterTheOther(callers[c].seen, c, d)
                   \/ task_assignee = OneAfterTheOther(callers[c].seen, d, c)

(***************************************************************************)
(* C18: update_task_status(status, task_id, caseid) returns True only when *)
(* a task with that id is in that case; its status is then the given one,  *)
(* the task state of the case was updated, and no other task has changed.  *)
(* It returns False when no task with that id is in that case, a task with *)
(* that id in another case being left as it is, and when the state update  *)
(* or the commit raises; and whenever it returns False the stored status   *)
(* of every task is as before.                                             *)
(***************************************************************************)
C18_TaskStatusTrueOnlyWhenCommitted ==
    [][tret'.op = "update_task_status" =>
          LET t == tret'.task
              c == tret'.case
              \* a task with that id is filed under that case
              TaskInCase(task_id, caseid) ==
                  /\ task_id \in DOMAIN case_tasks
                  /\ case_tasks[task_id].task_case_id = caseid
          IN  /\ tret'.ret \in {"True", "False"}
              /\ tret'.ret = "True" =>
                    /\ TaskInCase(t, c)
                    /\ tret'.raised = "no"
                    /\ case_tasks'[t].task_status_id = tret'.status
                    /\ case_tasks'[t].task_case_id = c
                    /\ tasks_state'[c] = tasks_state[c] + 1
                    /\ DOMAIN case_tasks' = DOMAIN case_tasks
                    /\ \A o \in DOMAIN case_tasks \ {t} :
                          case_tasks'[o] = case_tasks[o]
              /\ ~TaskInCase(t, c) => tret'.ret = "False"
              /\ tret'.raised # "no" => tret'.ret = "False"
              /\ tret'.ret = "False" => case_tasks' = case_tasks]_vars

\* a call for a task that is filed under another case, asking for a status
\* the task does not have, returned False and the task has kept its status
C18_Witness ==
    /\ tret.op = "update_task_status"
    /\ tret.ret = "False"
    /\ tret.task \in DOMAIN case_tasks
    /\ case_tasks[tret.task].task_case_id # tret.case
    /\ case_tasks[tret.task].task_status_id # tret.status

====
